---- MODULE Spec2Model ----
(***************************************************************************)
(* Model of the Amazon Lex v2 tutorial scripts:                            *)
(*   - Module_3/Demo_Managing_Bot_Lifecycle/lex_bot_version_manager.py     *)
(*     (the version manager: build a version, poll it, move the alias)     *)
(*   - Module_3/Demo_Managing_Conversation_State/lex_session_manager.py    *)
(*     (the session manager: multi-turn conversations threading a bag of   *)
(*     session attributes)                                                 *)
(*   - Module_3/Demo_SDK_Integration/interactive_chat.py                   *)
(*     (a console chat: one session id per run)                            *)
(*   - Module_1/Demo_Lambda/function.py                                    *)
(*     (the fulfilment handler that looks an order up in DynamoDB)         *)
(* The remote endpoints (Lex, DynamoDB) are the environment: every answer  *)
(* they can give is a nondeterministic choice of the action that issues    *)
(* the call.                                                               *)
(***************************************************************************)
EXTENDS Integers, Sequences, FiniteSets, TLC

VARIABLES
    \* ---- version manager (lex_bot_version_manager.py) ----
    pc,             \* position of main()
    BOT_ID,         \* module constant BOT_ID, as edited by the user
    client,         \* what create_lex_client returned
    max_wait_time,  \* parameter of wait_for_bot_version_available
    elapsed,        \* time.time() - start_time, in seconds
    new_version,    \* response['botVersion'] of the create_bot_version request
    wait_result,    \* what wait_for_bot_version_available returned
    wait_reason,    \* which return statement of the wait was taken
    cbv_return,     \* what create_bot_version returned to main
    alias_id,       \* what get_alias_id returned
    success,        \* what update_bot_alias returned
    alias_listing,  \* botAliasSummaries of the list_bot_aliases response
    calls,          \* the remote calls and sleeps issued so far, in order
    \* ---- session manager (lex_session_manager.py) ----
    spc,            \* position of the conversation driver
    driver,         \* which conversation function runs
    session_id,     \* the conversation's session id
    turn,           \* number of turns sent so far
    session_attributes, \* the driver's local variable session_attributes
    passed_bag,     \* session_attributes argument of the last send_message_to_bot
    last_request,   \* request_params of the last recognize_text call
    last_response,  \* what the last send_message_to_bot returned
    last_error,     \* what the last recognize_text call raised, if it did
    sent_texts,     \* the utterances sent so far, in order
    ever_sent_keys, \* attribute keys carried by any outbound request so far
    \* ---- interactive chat (interactive_chat.py), one entry per run ----
    now,            \* datetime.now(), in clock ticks
    chat_pc,        \* position of each chat_with_bot run
    SESSION_ID,     \* SESSION_ID of each run
    chat_sent,      \* number of recognize_text requests of each run
    chat_req_session, \* sessionId of each run's latest request
    chat_reply,     \* what recognize_text last returned in each run
    \* ---- order status handler (Module_1/Demo_Lambda/function.py) ----
    lpc,            \* position of lambda_handler
    event,          \* the OrderId slot of the event handed to lambda_handler
    table,          \* the items of the DynamoDB table, by OrderId
    order_id,       \* local variable order_id
    get_item_answer, \* how the table.get_item call ended
    item,           \* local variable item
    handler_return, \* what lambda_handler returned
    handler_raised  \* the exception that left lambda_handler, if one did

vmVars == <<pc, BOT_ID, client, max_wait_time, elapsed, new_version, wait_result,
            wait_reason, cbv_return, alias_id, success, alias_listing,
            calls>>
smVars == <<spc, driver, session_id, turn, session_attributes, passed_bag,
            last_request, last_response, last_error, sent_texts,
            ever_sent_keys>>
chatVars == <<now, chat_pc, SESSION_ID, chat_sent, chat_req_session, chat_reply>>
lamVars == <<lpc, event, table, order_id, get_item_answer, item, handler_return,
             handler_raised>>
vars == <<vmVars, smVars, chatVars, lamVars>>

None == "None"

(***************************************************************************)
(* Version manager                                                         *)
(***************************************************************************)

\* time.sleep(15): the fixed poll interval, in seconds
POLL_INTERVAL == 15

\* largest max_wait_time explored (seconds)
MaxWaitTime == 35

ALIAS_NAME == "DEMO"

BotIds == {"YOUR_BOT_ID", "YOUR_BOT_ID_HERE", "BOT123"}

\* botVersion values the service may answer with
Versions == {"1", "2"}

\* botStatus values of a describe_bot_version response
Statuses == {"Creating", "Versioning", "Available", "Failed"}

\* ways a remote call can raise
NotFound == "ResourceNotFoundException"
OtherClientError == "ThrottlingException"
OtherException == "Exception"
Errors == {OtherClientError, OtherException}

PollAnswers == Statuses \cup {NotFound} \cup Errors

Call(op, arg, ans) == [op |-> op, arg |-> arg, ans |-> ans]

\* one entry of botAliasSummaries
Alias(name, id) == [botAliasName |-> name, botAliasId |-> id]

\* botAliasSummaries values a list_bot_aliases response may carry
AliasListings ==
    { <<>>,
      <<Alias("DEMO", "A1")>>,
      <<Alias("PROD", "A2")>>,
      <<Alias("PROD", "A2"), Alias("DEMO", "A1")>>,
      <<Alias("DEMO", "A3"), Alias("DEMO", "A1")>> }

\* get_alias_id without the comparison of names
FirstAliasId_AnyName(summaries, alias_name) ==
    IF summaries = <<>> THEN None ELSE Head(summaries).botAliasId

\* get_alias_id, lines 43-46: the id of the first summary with the name
RECURSIVE FirstAliasId(_, _)
FirstAliasId(summaries, alias_name) ==
    IF summaries = <<>> THEN None
    ELSE IF Head(summaries).botAliasName = alias_name
         THEN Head(summaries).botAliasId
         ELSE FirstAliasId(Tail(summaries), alias_name)

\* PollOutcome with 'not found' handled like any other ClientError
PollOutcome_NotFoundFails(ans) ==
    IF ans \in Statuses
    THEN IF ans = "Available" THEN "True"
         ELSE IF ans = "Failed" THEN "False"
         ELSE "sleep"
    ELSE "False"

\* PollOutcome without the 'Failed' branch
PollOutcome_FailedKeepsPolling(ans) ==
    IF ans \in Statuses
    THEN IF ans = "Available" THEN "True" ELSE "sleep"
    ELSE IF ans = NotFound THEN "sleep"
    ELSE "False"

\* PollOutcome that takes every status but 'Available' for a failure
PollOutcome_UnknownStatusFails(ans) ==
    IF ans \in Statuses
    THEN IF ans = "Available" THEN "True" ELSE "False"
    ELSE IF ans = NotFound THEN "sleep"
    ELSE "False"

\* PollOutcome that takes every error for 'not found'
PollOutcome_ErrorsRetry(ans) ==
    IF ans \in Statuses
    THEN IF ans = "Available" THEN "True"
         ELSE IF ans = "Failed" THEN "False"
         ELSE "sleep"
    ELSE "sleep"

\* what one describe_bot_version answer does to the polling loop:
\* "True"/"False" is returned, or the loop sleeps and polls again
PollOutcome(ans) ==
    IF ans \in Statuses
    THEN IF ans = "Available" THEN "True"
         ELSE IF ans = "Failed" THEN "False"
         ELSE "sleep"
    ELSE IF ans = NotFound THEN "sleep"
    ELSE "False"

\* the 'not found' branch going on to the next iteration without its sleep
AfterNonTerminal_NoSleepOnNotFound(ans) ==
    IF ans = NotFound THEN "wait" ELSE "sleep"

\* the loop after an answer that does not end it: time.sleep(15) on line 128
\* (another status) and on line 134 ('not found'), then the next iteration
AfterNonTerminal(ans) == "sleep"

\* the return statement a terminal answer takes
PollReason(ans) ==
    IF ans = "Available" THEN "Available"
    ELSE IF ans = "Failed" THEN "Failed"
    ELSE "Error"

\* the value returned by each return statement of
\* wait_for_bot_version_available: line 122, and lines 125, 138, 141, 144
WaitReturnValue(why) == IF why = "Available" THEN "True" ELSE "False"

\* the loop condition written with <=
WaitBudgetLeft_Inclusive(t, budget) == t <= budget

\* the loop condition of wait_for_bot_version_available
WaitBudgetLeft(t, budget) == t < budget

\* create_bot_version, lines 87-89: the wait's result is not looked at
CreateBotVersionReturn(version, waited) == version

\* a main that tries the build again when create_bot_version returned None
AfterCreate_RetryOnFailure(ret) ==
    IF ret = None THEN "create_bot_version" ELSE "get_alias_id"

\* a main without the "if not new_version" check
AfterCreate_IgnoreNone(ret) == "get_alias_id"

\* main, lines 249-251: "if not new_version: return"
AfterCreate(ret) == IF ret = None THEN "done" ELSE "get_alias_id"

InitVM ==
    /\ pc = "main"
    /\ BOT_ID \in BotIds
    /\ client = "unset"
    /\ max_wait_time \in 0..MaxWaitTime
    /\ elapsed = 0
    /\ new_version = None
    /\ wait_result = "unset"
    /\ wait_reason = "unset"
    /\ cbv_return = "unset"
    /\ alias_id = "unset"
    /\ success = "unset"
    /\ alias_listing = <<>>
    /\ calls = <<>>

\* main, lines 223-227: the placeholder check
MainValidate ==
    /\ pc = "main"
    /\ UNCHANGED <<smVars, chatVars, lamVars>>
    /\ pc' = IF BOT_ID = "YOUR_BOT_ID_HERE" THEN "done" ELSE "create_client"
    /\ UNCHANGED <<BOT_ID, client, max_wait_time, elapsed, new_version, wait_result,
                   wait_reason, cbv_return, alias_id, success, alias_listing, calls>>

\* create_lex_client and main, lines 230-232
CreateLexClient ==
    /\ pc = "create_client"
    /\ UNCHANGED <<smVars, chatVars, lamVars>>
    /\ \E ok \in BOOLEAN :
          /\ client' = IF ok THEN "client" ELSE None
          /\ pc' = IF ok THEN "get_bot_info" ELSE "done"
    /\ UNCHANGED <<BOT_ID, max_wait_time, elapsed, new_version, wait_result,
                   wait_reason, cbv_return, alias_id, success, alias_listing, calls>>

\* get_bot_info and main, lines 237-238; only ClientError is caught
GetBotInfo ==
    /\ pc = "get_bot_info"
    /\ UNCHANGED <<smVars, chatVars, lamVars>>
    /\ \E ans \in {"ok", OtherClientError, OtherException} :
          /\ calls' = Append(calls, Call("describe_bot", BOT_ID, ans))
          /\ pc' = IF ans = "ok" THEN "create_bot_version"
                   ELSE IF ans = OtherClientError THEN "done"
                   ELSE "crashed"
    /\ UNCHANGED <<BOT_ID, client, max_wait_time, elapsed, new_version, wait_result,
                   wait_reason, cbv_return, alias_id, success, alias_listing>>

\* create_bot_version, lines 63-83 and 91-96: the build request
CreateBotVersionRequest ==
    /\ pc = "create_bot_version"
    /\ UNCHANGED <<smVars, chatVars, lamVars>>
    /\ \E ans \in Versions \cup Errors :
          /\ calls' = Append(calls, Call("create_bot_version", BOT_ID, ans))
          /\ IF ans \in Versions
             THEN /\ new_version' = ans
                  /\ pc' = "wait"
                  /\ UNCHANGED cbv_return
             ELSE /\ cbv_return' = None
                  /\ pc' = AfterCreate(None)
                  /\ UNCHANGED new_version
    /\ elapsed' = 0
    /\ UNCHANGED <<BOT_ID, client, max_wait_time, wait_result, wait_reason,
                   alias_id, success, alias_listing>>

\* wait_for_bot_version_available returns r; create_bot_version returns to
\* main, which goes on to the alias or stops
WaitReturns(r, why) ==
    LET ret == CreateBotVersionReturn(new_version, r) IN
    /\ wait_result' = r
    /\ wait_reason' = why
    /\ cbv_return' = ret
    /\ pc' = AfterCreate(ret)

\* one iteration of the polling loop, lines 110-141, up to its sleep
Poll ==
    /\ pc = "wait"
    /\ UNCHANGED <<smVars, chatVars, lamVars>>
    /\ WaitBudgetLeft(elapsed, max_wait_time)
    /\ \E ans \in PollAnswers :
          /\ calls' = Append(calls, Call("describe_bot_version", new_version, ans))
          /\ IF PollOutcome(ans) = "sleep"
             THEN /\ pc' = AfterNonTerminal(ans)
                  /\ UNCHANGED <<wait_result, wait_reason, cbv_return>>
             ELSE WaitReturns(PollOutcome(ans), PollReason(ans))
    /\ UNCHANGED <<BOT_ID, client, max_wait_time, elapsed, new_version, alias_id,
                   success, alias_listing>>

\* time.sleep(15), lines 128 and 134
Sleep ==
    /\ pc = "sleep"
    /\ UNCHANGED <<smVars, chatVars, lamVars>>
    /\ elapsed' = elapsed + POLL_INTERVAL
    /\ calls' = Append(calls, Call("sleep", POLL_INTERVAL, "ok"))
    /\ pc' = "wait"
    /\ UNCHANGED <<BOT_ID, client, max_wait_time, new_version, wait_result, wait_reason,
                   cbv_return, alias_id, success, alias_listing>>

\* the loop condition fails, lines 143-144
Timeout ==
    /\ pc = "wait"
    /\ UNCHANGED <<smVars, chatVars, lamVars>>
    /\ ~WaitBudgetLeft(elapsed, max_wait_time)
    /\ WaitReturns(WaitReturnValue("Timeout"), "Timeout")
    /\ UNCHANGED <<BOT_ID, client, max_wait_time, elapsed, new_version, alias_id,
                   success, alias_listing, calls>>

\* update_bot_alias, lines 159-164, with get_alias_id, lines 41-49
ResolveAlias ==
    /\ pc = "get_alias_id"
    /\ UNCHANGED <<smVars, chatVars, lamVars>>
    /\ \E ans \in {"ok"} \cup Errors, listing \in AliasListings :
          LET id == IF ans \in Errors THEN None
                    ELSE FirstAliasId(listing, ALIAS_NAME) IN
          /\ calls' = Append(calls, Call("list_bot_aliases", BOT_ID, ans))
          /\ alias_listing' = IF ans = "ok" THEN listing ELSE <<>>
          /\ alias_id' = id
          /\ IF id = None
             THEN success' = "False" /\ pc' = "done"
             ELSE pc' = "update_bot_alias" /\ UNCHANGED success
    /\ UNCHANGED <<BOT_ID, client, max_wait_time, elapsed, new_version, wait_result,
                   wait_reason, cbv_return>>

\* update_bot_alias, lines 169-198: the update request
UpdateBotAliasRequest ==
    /\ pc = "update_bot_alias"
    /\ UNCHANGED <<smVars, chatVars, lamVars>>
    /\ \E ans \in Versions \cup Errors :
          /\ calls' = Append(calls,
                 Call("update_bot_alias",
                      [botAliasId |-> alias_id, botVersion |-> cbv_return], ans))
          /\ success' = IF ans \in Versions THEN "True" ELSE "False"
    /\ pc' = "done"
    /\ UNCHANGED <<BOT_ID, client, max_wait_time, elapsed, new_version, wait_result,
                   wait_reason, cbv_return, alias_id, alias_listing>>

NextVM ==
    \/ MainValidate
    \/ CreateLexClient
    \/ GetBotInfo
    \/ CreateBotVersionRequest
    \/ Poll
    \/ Sleep
    \/ Timeout
    \/ ResolveAlias
    \/ UpdateBotAliasRequest

(***************************************************************************)
(* Session manager                                                         *)
(***************************************************************************)

\* conversation_steps of simulate_multi_turn_conversation
conversation_steps ==
    << "Hello", "I want to order a pizza", "Large", "Pepperoni",
       "Yes, that's correct" >>

\* the four utterances of demonstrate_context_switching, in program order
context_steps ==
    << "I want to order a pizza", "Medium", "Actually, cancel that",
       "I want to order a pizza" >>

Script(d) == IF d = "multi_turn" THEN conversation_steps ELSE context_steps

\* number of session ids uuid4 is drawn from
NumUuids == 2

\* generate_session_id: f'session-{uuid.uuid4()}'
SessionIdOf(u) == "session-" \o ToString(u)

\* f'turn_{i}_intent' and f'turn_{i}_state'
TurnIntentKey(i) == "turn_" \o ToString(i) \o "_intent"
TurnStateKey(i) == "turn_" \o ToString(i) \o "_state"

\* attribute keys: the drivers' own, and one the service derives itself
AttrKeys ==
    {"demo", "srv"} \cup
    UNION { {TurnIntentKey(i), TurnStateKey(i)} : i \in 1..Len(conversation_steps) }

\* a bag (dict of str -> str) is a function on AttrKeys; Absent marks a key
\* the dict does not hold
Absent == "<absent>"
EmptyBag == [k \in AttrKeys |-> Absent]
Keys(bag) == {k \in AttrKeys : bag[k] # Absent}
Put(bag, key, value) == [bag EXCEPT ![key] = value]
Without(bag, key) == [bag EXCEPT ![key] = Absent]

\* Python truthiness of a dict: "if session_attributes:"
Truthy(bag) == Keys(bag) # {}

\* a field the service left out of its response
Missing == "<missing>"
\* sessionState.intent of a response: present with name and state, or left out
RemoteIntents ==
    { [name |-> "OrderPizza", state |-> "InProgress"],
      [name |-> Missing, state |-> Missing] }

\* attribute bags the service may answer turn i with, given the bag the
\* driver holds: the same bag, none, one more key of its own, one key less,
\* or a key the driver is about to set itself
RemoteBags(bag, i) ==
    {bag, EmptyBag, Put(bag, "srv", "x"), Put(bag, TurnIntentKey(i), "Stale")}
    \cup {Without(bag, k) : k \in Keys(bag)}

\* recognize_text responses: sessionState.sessionAttributes may be left out
RemoteResponses(bag, i) ==
    { [has_attrs |-> h, attrs |-> a, name |-> it.name, state |-> it.state] :
        h \in BOOLEAN, a \in RemoteBags(bag, i), it \in RemoteIntents }

\* a request that takes its session id from the utterance
RequestParams_SessionPerTurn(sid, message, attrs) ==
    IF Truthy(attrs)
    THEN [sessionId |-> "session-" \o message, text |-> message,
          has_session_state |-> TRUE, sessionAttributes |-> attrs]
    ELSE [sessionId |-> "session-" \o message, text |-> message,
          has_session_state |-> FALSE, sessionAttributes |-> EmptyBag]

\* send_message_to_bot, lines 69-82: the request it builds
RequestParams(sid, message, attrs) ==
    IF Truthy(attrs)
    THEN [sessionId |-> sid, text |-> message,
          has_session_state |-> TRUE, sessionAttributes |-> attrs]
    ELSE [sessionId |-> sid, text |-> message,
          has_session_state |-> FALSE, sessionAttributes |-> EmptyBag]

NoRequest ==
    [sessionId |-> "", text |-> "", has_session_state |-> FALSE,
     sessionAttributes |-> EmptyBag]

\* send_message_to_bot, lines 92-98 and 116-123: the dict it returns
ParseResponse(raw) ==
    [kind |-> "dict",
     intent_name |-> IF raw.name = Missing THEN "Unknown" ELSE raw.name,
     intent_state |-> IF raw.state = Missing THEN "Unknown" ELSE raw.state,
     session_attributes |-> IF raw.has_attrs THEN raw.attrs ELSE EmptyBag]

\* send_message_to_bot, lines 125-130: an exception makes it return None
NoneResponse ==
    [kind |-> "None", intent_name |-> "", intent_state |-> "",
     session_attributes |-> EmptyBag]

Unset == [kind |-> "unset", intent_name |-> "", intent_state |-> "",
          session_attributes |-> EmptyBag]

\* a driver that does not look at what send_message_to_bot returned
Responded_Always(response) == TRUE

\* "if not response" / "if response1": a returned dict is never empty
Responded(response) == response.kind = "dict"

\* the tracking keys set only where the response does not hold them already
NextTurnAttributes_ResponseWins(i, response) ==
    [k \in AttrKeys |->
        IF response.session_attributes[k] # Absent
        THEN response.session_attributes[k]
        ELSE IF k = TurnIntentKey(i) THEN response.intent_name
        ELSE IF k = TurnStateKey(i) THEN response.intent_state
        ELSE Absent]

\* simulate_multi_turn_conversation, lines 205-209: the bag for the next turn
NextTurnAttributes(i, response) ==
    Put(Put(response.session_attributes,
            TurnIntentKey(i), response.intent_name),
        TurnStateKey(i), response.intent_state)

\* demonstrate_context_switching, lines 236, 246, 256: the bag for the next
\* turn; response4 is not looked at
NextContextAttributes(i, response, current) ==
    IF i < Len(context_steps) THEN response.session_attributes ELSE current

InitSM ==
    /\ spc = "start"
    /\ driver = "none"
    /\ session_id = ""
    /\ turn = 0
    /\ session_attributes = EmptyBag
    /\ passed_bag = EmptyBag
    /\ last_request = NoRequest
    /\ last_response = Unset
    /\ last_error = "none"
    /\ sent_texts = <<>>
    /\ ever_sent_keys = {}

\* simulate_multi_turn_conversation, lines 179-190
StartMultiTurn ==
    /\ spc = "start"
    /\ UNCHANGED <<vmVars, chatVars, lamVars>>
    /\ \E u \in 1..NumUuids : session_id' = SessionIdOf(u)
    /\ driver' = "multi_turn"
    /\ session_attributes' = EmptyBag
    /\ spc' = "turn"
    /\ UNCHANGED <<turn, passed_bag, last_request, last_response, last_error,
                   sent_texts, ever_sent_keys>>

\* demonstrate_context_switching, lines 225-226
StartContextSwitching ==
    /\ spc = "start"
    /\ UNCHANGED <<vmVars, chatVars, lamVars>>
    /\ \E u \in 1..NumUuids : session_id' = SessionIdOf(u)
    /\ driver' = "context_switching"
    /\ session_attributes' = Put(EmptyBag, "demo", "context_switching")
    /\ spc' = "turn"
    /\ UNCHANGED <<turn, passed_bag, last_request, last_response, last_error,
                   sent_texts, ever_sent_keys>>

\* the bookkeeping of one send_message_to_bot call for turn i
Sent(i, request, response) ==
    /\ turn' = i
    /\ passed_bag' = session_attributes
    /\ last_request' = request
    /\ last_response' = response
    /\ sent_texts' = Append(sent_texts, request.text)
    /\ ever_sent_keys' = ever_sent_keys \cup Keys(request.sessionAttributes)

\* the response slot of a recognize_text call that raised
NoRaw == [has_attrs |-> FALSE, attrs |-> EmptyBag, name |-> Missing,
          state |-> Missing]

\* what the recognize_text call of turn i can do: answer, or raise a
\* ClientError or another exception
RecognizeTextOutcomes(bag, i) ==
    {[raised |-> "none", raw |-> raw] : raw \in RemoteResponses(bag, i)}
    \cup {[raised |-> e, raw |-> NoRaw] : e \in Errors}

\* send_message_to_bot, lines 85-130: the parsed response, or None from
\* either except clause
SendMessageToBot(outcome) ==
    IF outcome.raised = "none" THEN ParseResponse(outcome.raw) ELSE NoneResponse

\* what send_message_to_bot can return for turn i: the parsed response, or
\* None when recognize_text raised (ClientError or any other exception)
SendOutcomes(bag, i) ==
    {SendMessageToBot(outcome) : outcome \in RecognizeTextOutcomes(bag, i)}

\* one iteration of the loop of simulate_multi_turn_conversation,
\* lines 192-212 (the one-second sleep between turns changes no state)
MultiTurnStep ==
    /\ spc = "turn"
    /\ UNCHANGED <<vmVars, chatVars, lamVars>>
    /\ driver = "multi_turn"
    /\ LET i == turn + 1
           request == RequestParams(session_id, conversation_steps[i],
                                    session_attributes) IN
       \E outcome \in RecognizeTextOutcomes(session_attributes, i) :
          LET response == SendMessageToBot(outcome) IN
          /\ last_error' = outcome.raised
          /\ Sent(i, request, response)
          /\ IF Responded(response)
             THEN /\ session_attributes' = NextTurnAttributes(i, response)
                  /\ spc' = IF i < Len(conversation_steps)
                            THEN "turn" ELSE "done"
             ELSE /\ spc' = "done"
                  /\ UNCHANGED session_attributes
    /\ UNCHANGED <<driver, session_id>>

\* one send_message_to_bot of demonstrate_context_switching and the "if"
\* that guards the next, lines 230-263
ContextStep ==
    /\ spc = "turn"
    /\ UNCHANGED <<vmVars, chatVars, lamVars>>
    /\ driver = "context_switching"
    /\ LET i == turn + 1
           request == RequestParams(session_id, context_steps[i],
                                    session_attributes) IN
       \E outcome \in RecognizeTextOutcomes(session_attributes, i) :
          LET response == SendMessageToBot(outcome) IN
          /\ last_error' = outcome.raised
          /\ Sent(i, request, response)
          /\ IF Responded(response)
             THEN /\ session_attributes' =
                         NextContextAttributes(i, response, session_attributes)
                  /\ spc' = IF i < Len(context_steps) THEN "turn" ELSE "done"
             ELSE /\ spc' = "done"
                  /\ UNCHANGED session_attributes
    /\ UNCHANGED <<driver, session_id>>

NextSM ==
    \/ StartMultiTurn
    \/ StartContextSwitching
    \/ MultiTurnStep
    \/ ContextStep

(***************************************************************************)
(* Interactive chat                                                        *)
(***************************************************************************)

\* number of chat_with_bot runs (processes) on the same clock
NumChats == 2

\* clock ticks in one second: datetime.now() is finer than a second
TicksPerSecond == 2

\* the last clock tick explored
MaxClock == 3

\* recognize_text requests explored per run of the "while True" loop
MaxChatTurns == 2

Chats == 1..NumChats

\* f"session-{datetime.now().strftime('%Y%m%d-%H%M%S')}": the time of the
\* call, cut to the second
SessionIdAt(t) == "session-" \o ToString(t \div TicksPerSecond)

\* recognize_text, lines 23-29: the request it sends
ChatRequest(sid, text_input) == [sessionId |-> sid, text |-> text_input]

InitChat ==
    /\ now \in 0..(TicksPerSecond - 1)
    /\ chat_pc = [c \in Chats |-> "start"]
    /\ SESSION_ID = [c \in Chats |-> ""]
    /\ chat_sent = [c \in Chats |-> 0]
    /\ chat_req_session = [c \in Chats |-> ""]
    /\ chat_reply = [c \in Chats |-> "unset"]

\* time passes
Tick ==
    /\ \E c \in Chats : chat_pc[c] # "idle"
    /\ now < MaxClock
    /\ now' = now + 1
    /\ UNCHANGED <<vmVars, smVars, lamVars, chat_pc, SESSION_ID, chat_sent,
                   chat_req_session, chat_reply>>

\* chat_with_bot, lines 41-49: SESSION_ID, then initialize_lex_client
ChatStart(c) ==
    /\ chat_pc[c] = "start"
    /\ SESSION_ID' = [SESSION_ID EXCEPT ![c] = SessionIdAt(now)]
    /\ \E ok \in BOOLEAN :
          chat_pc' = [chat_pc EXCEPT ![c] = IF ok THEN "loop" ELSE "done"]
    /\ UNCHANGED <<vmVars, smVars, lamVars, now, chat_sent, chat_req_session, chat_reply>>

\* chat_with_bot, lines 57-61: 'quit', 'exit' or 'bye' ends the loop
ChatQuit(c) ==
    /\ chat_pc[c] = "loop"
    /\ chat_pc' = [chat_pc EXCEPT ![c] = "done"]
    /\ UNCHANGED <<vmVars, smVars, lamVars, now, SESSION_ID, chat_sent, chat_req_session,
                   chat_reply>>

\* chat_with_bot, lines 63-64: a blank line is skipped
ChatBlank(c) ==
    /\ chat_pc[c] = "loop"
    /\ UNCHANGED vars

\* chat_with_bot, lines 66-90, with recognize_text, lines 20-35: one
\* request; the loop goes on whether it answered or raised
ChatSend(c) ==
    /\ chat_pc[c] = "loop"
    /\ chat_sent[c] < MaxChatTurns
    /\ chat_sent' = [chat_sent EXCEPT ![c] = @ + 1]
    /\ chat_req_session' =
          [chat_req_session EXCEPT ![c] = ChatRequest(SESSION_ID[c], "text").sessionId]
    /\ \E reply \in {"None", "InProgress", "Fulfilled", "Failed"} :
          chat_reply' = [chat_reply EXCEPT ![c] = reply]
    /\ UNCHANGED <<vmVars, smVars, lamVars, now, chat_pc, SESSION_ID>>

NextChat ==
    \/ Tick
    \/ \E c \in Chats : ChatStart(c)
    \/ \E c \in Chats : ChatQuit(c)
    \/ \E c \in Chats : ChatBlank(c)
    \/ \E c \in Chats : ChatSend(c)

\* the chat's variables while another script runs
IdleChat ==
    /\ now = 0
    /\ chat_pc = [c \in Chats |-> "idle"]
    /\ SESSION_ID = [c \in Chats |-> ""]
    /\ chat_sent = [c \in Chats |-> 0]
    /\ chat_req_session = [c \in Chats |-> ""]
    /\ chat_reply = [c \in Chats |-> "unset"]

(***************************************************************************)
(* Order status handler (Module_1/Demo_Lambda/function.py)                 *)
(***************************************************************************)

OrderIds == {"1001", "1002"}
OrderStatuses == {"Shipped", "Processing"}

\* event['sessionState']['intent']['slots']['OrderId'] as Lex can send it:
\* filled in, null (slot not elicited yet), the key missing, or a value
\* without 'interpretedValue' (the utterance did not resolve)
SlotShapes == {"filled", "null", "missing", "no_interpreted_value"}
Events ==
    {[slot |-> "filled", interpretedValue |-> o] : o \in OrderIds}
        \cup {[slot |-> k, interpretedValue |-> ""] : k \in SlotShapes \ {"filled"}}

\* response.get('Item'): None, an item with a Status attribute, or an item
\* stored without one
NoItem == [present |-> FALSE, has_status |-> FALSE, Status |-> ""]
Items ==
    {NoItem}
        \cup {[present |-> TRUE, has_status |-> TRUE, Status |-> s] : s \in OrderStatuses}
        \cup {[present |-> TRUE, has_status |-> FALSE, Status |-> ""]}

\* what table.get_item can raise
GetItemErrors == {"ClientError", "EndpointConnectionError"}

\* line 8: the chain of subscripts that reads the slot; outside the try
ExtractOrderId(ev) ==
    CASE ev.slot = "filled" -> [raised |-> "none", value |-> ev.interpretedValue]
      [] ev.slot = "null"   -> [raised |-> "TypeError", value |-> ""]
      [] OTHER              -> [raised |-> "KeyError", value |-> ""]

\* the dictionaries of lines 19-33 and 37-51
CloseResponse(state, content) ==
    [sessionState |->
        [dialogAction |-> [type |-> "Close"],
         intent |-> [name |-> "CheckOrderStatus", state |-> state]],
     messages |-> << [contentType |-> "PlainText", content |-> content] >>]

\* the except clause, lines 35-51
FailedResponse == CloseResponse("Failed", "There was an error looking up your order.")

\* nothing returned (yet)
NoReturn ==
    [sessionState |->
        [dialogAction |-> [type |-> "unset"],
         intent |-> [name |-> "unset", state |-> "unset"]],
     messages |-> << >>]

\* a handler that reports an order it did not find as a failure
LookupResponse_NotFoundFails(oid, it) ==
    IF it.present
    THEN IF it.has_status
         THEN CloseResponse("Fulfilled", "Order " \o oid \o " is currently: " \o it.Status)
         ELSE FailedResponse
    ELSE FailedResponse

\* lines 14-33 after get_item answered, with the except clause for the
\* KeyError of item['Status']
LookupResponse(oid, it) ==
    IF it.present
    THEN IF it.has_status
         THEN CloseResponse("Fulfilled", "Order " \o oid \o " is currently: " \o it.Status)
         ELSE FailedResponse
    ELSE CloseResponse("Fulfilled", "Sorry, I couldn't find order " \o oid)

InitLambda ==
    /\ lpc = "start"
    /\ event \in Events
    /\ table \in [OrderIds -> Items]
    /\ order_id = ""
    /\ get_item_answer = "unset"
    /\ item = NoItem
    /\ handler_return = NoReturn
    /\ handler_raised = "none"

\* line 8: order_id = event[...]; an exception here leaves the handler
ReadSlot ==
    /\ lpc = "start"
    /\ UNCHANGED <<vmVars, smVars, chatVars>>
    /\ LET r == ExtractOrderId(event) IN
         IF r.raised = "none"
         THEN /\ order_id' = r.value
              /\ lpc' = "get_item"
              /\ UNCHANGED handler_raised
         ELSE /\ handler_raised' = r.raised
              /\ lpc' = "raised"
              /\ UNCHANGED order_id
    /\ UNCHANGED <<event, table, get_item_answer, item, handler_return>>

\* lines 11-12: table.get_item and response.get('Item'); lines 35-51 when
\* the call raises
GetItem ==
    /\ lpc = "get_item"
    /\ UNCHANGED <<vmVars, smVars, chatVars>>
    /\ \E ans \in {"ok"} \cup GetItemErrors :
         /\ get_item_answer' = ans
         /\ IF ans = "ok"
            THEN /\ item' = table[order_id]
                 /\ lpc' = "respond"
                 /\ UNCHANGED handler_return
            ELSE /\ handler_return' = FailedResponse
                 /\ lpc' = "done"
                 /\ UNCHANGED item
    /\ UNCHANGED <<event, table, order_id, handler_raised>>

\* lines 14-33, or lines 35-51 when reading the item raises
Respond ==
    /\ lpc = "respond"
    /\ UNCHANGED <<vmVars, smVars, chatVars>>
    /\ handler_return' = LookupResponse(order_id, item)
    /\ lpc' = "done"
    /\ UNCHANGED <<event, table, order_id, get_item_answer, item, handler_raised>>

NextLambda ==
    \/ ReadSlot
    \/ GetItem
    \/ Respond

\* the handler's variables while another script runs
IdleLambda ==
    /\ lpc = "idle"
    /\ event = [slot |-> "missing", interpretedValue |-> ""]
    /\ table = [o \in OrderIds |-> NoItem]
    /\ order_id = ""
    /\ get_item_answer = "unset"
    /\ item = NoItem
    /\ handler_return = NoReturn
    /\ handler_raised = "none"

(***************************************************************************)
(* Specifications: each script runs on its own                             *)
(***************************************************************************)

\* the version manager's variables while the session manager runs
IdleVM ==
    /\ pc = "idle"
    /\ BOT_ID = "BOT123"
    /\ client = "unset"
    /\ max_wait_time = 0
    /\ elapsed = 0
    /\ new_version = None
    /\ wait_result = "unset"
    /\ wait_reason = "unset"
    /\ cbv_return = "unset"
    /\ alias_id = "unset"
    /\ success = "unset"
    /\ alias_listing = <<>>
    /\ calls = <<>>

\* the session manager's variables while the version manager runs
IdleSM ==
    /\ spc = "idle"
    /\ driver = "none"
    /\ session_id = ""
    /\ turn = 0
    /\ session_attributes = EmptyBag
    /\ passed_bag = EmptyBag
    /\ last_request = NoRequest
    /\ last_response = Unset
    /\ last_error = "none"
    /\ sent_texts = <<>>
    /\ ever_sent_keys = {}

\* lex_bot_version_manager.py run as a script
VMInit == InitVM /\ IdleSM /\ IdleChat /\ IdleLambda
VMSpec == VMInit /\ [][NextVM]_vars
\* the script's single thread always takes its next step
VMLiveSpec == VMSpec /\ WF_vars(NextVM)

\* one conversation of lex_session_manager.py
SMInit == InitSM /\ IdleVM /\ IdleChat /\ IdleLambda
SMSpec == SMInit /\ [][NextSM]_vars

\* runs of interactive_chat.py
ChatInit == InitChat /\ IdleVM /\ IdleSM /\ IdleLambda
ChatSpec == ChatInit /\ [][NextChat]_vars

\* invocations of the order status handler
LambdaInit == InitLambda /\ IdleVM /\ IdleSM /\ IdleChat
LambdaSpec == LambdaInit /\ [][NextLambda]_vars

\* a conversation of either script
ConvInit == SMInit \/ ChatInit
ConvNext == NextSM \/ NextChat
ConvSpec == ConvInit /\ [][ConvNext]_vars

(***************************************************************************)
(* Properties of the session manager (under SMSpec)                        *)
(***************************************************************************)

\* dict merge in which the keys of "injected" win
Merge(injected, base) ==
    [k \in AttrKeys |-> IF injected[k] # Absent THEN injected[k] ELSE base[k]]

\* the keys the multi-turn driver adds after turn k
InjectedKeys(k, response) ==
    [key \in AttrKeys |->
        IF key = TurnIntentKey(k) THEN response.intent_name
        ELSE IF key = TurnStateKey(k) THEN response.intent_state
        ELSE Absent]

\* C2: in simulate_multi_turn_conversation the bag passed to
\* send_message_to_bot for turn k+1 is the bag returned by turn k merged
\* with turn_k_intent and turn_k_state, the injected keys winning.
C2_NextBagIsMerge ==
    [][ (driver = "multi_turn" /\ turn >= 1 /\ turn' = turn + 1)
        => passed_bag' = Merge(InjectedKeys(turn, last_response),
                               last_response.session_attributes) ]_vars

\* a second turn was sent with the first turn's keys and a service key in
\* the bag
C2_Witness ==
    /\ driver = "multi_turn"
    /\ turn = 2
    /\ passed_bag[TurnIntentKey(1)] = "OrderPizza"
    /\ passed_bag[TurnStateKey(1)] = "InProgress"
    /\ passed_bag["srv"] = "x"

\* C3: every recognize_text request carries the bag send_message_to_bot
\* was given, the empty bag included; the bag is never left out.
C3_BagAlwaysCarried ==
    turn >= 1 =>
        /\ last_request.has_session_state
        /\ last_request.sessionAttributes = passed_bag

\* C4: a key carried by the request of an earlier turn is carried by the
\* request of every later turn of the conversation.
C4_NoAttributeLost ==
    turn >= 1 => ever_sent_keys \subseteq Keys(last_request.sessionAttributes)

\* C5: the utterances go out in their listed order, and once
\* send_message_to_bot has returned None nothing more is sent and the bag is
\* left as it is.
C5_StopOnFailure ==
    /\ [](sent_texts = SubSeq(Script(driver), 1, Len(sent_texts)))
    /\ [][ last_response.kind = "None"
           => /\ sent_texts' = sent_texts
              /\ last_request' = last_request
              /\ session_attributes' = session_attributes ]_vars

\* a turn failed after two turns had worked, with utterances left unsent
C5_Witness ==
    /\ last_response.kind = "None"
    /\ turn = 3
    /\ Len(sent_texts) < Len(Script(driver))
    /\ spc = "done"

\* C13: when recognize_text raises, send_message_to_bot returns (it does
\* not raise) a value that is no success result and that carries the error:
\* a different error would not have returned the same value.
C13_FailureCarriesError ==
    last_error # "none"
    => /\ ~Responded(last_response)
       /\ \A e \in Errors \ {last_error} :
             SendMessageToBot([raised |-> e, raw |-> NoRaw]) # last_response

(***************************************************************************)
(* Properties of the version manager (under VMSpec, VMLiveSpec)            *)
(***************************************************************************)

IsPoll(c) == c.op = "describe_bot_version"
IsSleep(c) == c.op = "sleep"

\* the describe_bot_version calls issued so far
Polls == SelectSeq(calls, IsPoll)

\* seconds slept within the first n entries of calls
SleptBy(n) == POLL_INTERVAL * Len(SelectSeq(SubSeq(calls, 1, n), IsSleep))

Ceil(a, b) == (a + b - 1) \div b

\* C1: update_bot_alias is requested only after a describe_bot_version poll
\* of the new version has answered 'Available'.
C1_AliasOnlyAfterAvailable ==
    \A i \in 1..Len(calls) :
        calls[i].op = "update_bot_alias"
        => \E j \in 1..(i - 1) : IsPoll(calls[j]) /\ calls[j].ans = "Available"

\* C6: the wait ends; answers that are all non-terminal or 'not found' end
\* it with the timeout failure, less than one poll interval past
\* max_wait_time, after at most ceil(max_wait_time / 15) polls.
C6_WaitTerminates ==
    /\ [](Len(Polls) <= Ceil(max_wait_time, POLL_INTERVAL))
    /\ [](wait_reason = "Timeout"
          => /\ wait_result = "False"
             /\ elapsed >= max_wait_time
             /\ elapsed - max_wait_time < POLL_INTERVAL)
    /\ []((/\ wait_result # "unset"
           /\ \A i \in 1..Len(Polls) : PollOutcome(Polls[i].ans) = "sleep")
          => wait_reason = "Timeout")
    /\ (pc = "wait" ~> wait_result # "unset")

\* three polls, none terminal, and the timeout taken past a budget that is
\* no multiple of the interval
C6_Witness ==
    /\ wait_reason = "Timeout"
    /\ Len(Polls) = 3
    /\ elapsed > max_wait_time

\* C7: a poll that fails with ResourceNotFoundException does not end the
\* wait: one sleep follows, then the next poll while the budget lasts, and
\* an 'Available' after it makes the wait succeed.
C7_NotFoundIsBuilding ==
    \A i \in 1..Len(calls) :
        (IsPoll(calls[i]) /\ calls[i].ans = NotFound)
        => /\ i = Len(calls) => (pc = "sleep" /\ wait_result = "unset")
           /\ i < Len(calls) => IsSleep(calls[i + 1])
           /\ (i + 1 = Len(calls) /\ SleptBy(i + 1) < max_wait_time)
                 => (pc = "wait" /\ wait_result = "unset")
           /\ (i + 1 < Len(calls) /\ SleptBy(i + 1) < max_wait_time)
                 => IsPoll(calls[i + 2])
           /\ \A j \in (i + 1)..Len(calls) :
                 (IsPoll(calls[j]) /\ calls[j].ans = "Available")
                 => wait_result = "True"

\* 'not found', then 'Available': the wait returned True
C7_Witness ==
    /\ Len(Polls) = 2
    /\ Polls[1].ans = NotFound
    /\ Polls[2].ans = "Available"
    /\ wait_result = "True"

\* C8: after a poll has answered 'Available' or 'Failed' no further
\* describe_bot_version is issued, the answer decides the wait's result, and
\* the result never changes afterwards.
C8_TerminalIsFinal ==
    /\ [](\A i \in 1..Len(calls) :
            (IsPoll(calls[i]) /\ calls[i].ans \in {"Available", "Failed"})
            => /\ \A j \in (i + 1)..Len(calls) : ~IsPoll(calls[j])
               /\ wait_result = (IF calls[i].ans = "Available"
                                 THEN "True" ELSE "False"))
    /\ [][ wait_result # "unset"
           => (wait_result' = wait_result /\ wait_reason' = wait_reason) ]_vars

\* a poll answered 'Failed' and main ran on to its end
C8_Witness ==
    /\ pc = "done"
    /\ Len(Polls) >= 2
    /\ Polls[Len(Polls)].ans = "Failed"
    /\ Len(calls) > 0
    /\ ~IsPoll(calls[Len(calls)])

\* C9: the wait returns True exactly when some poll answered 'Available'
\* with no 'Failed' and no error other than 'not found' before it; any other
\* status is followed by a sleep, like a build in progress.
C9_TrueIffAvailable ==
    /\ wait_result # "unset"
       => (wait_result = "True"
           <=> \E i \in 1..Len(Polls) :
                  /\ Polls[i].ans = "Available"
                  /\ \A j \in 1..(i - 1) :
                        Polls[j].ans \notin ({"Failed"} \cup Errors))
    /\ \A i \in 1..Len(calls) :
          (IsPoll(calls[i]) /\ calls[i].ans \in Statuses \ {"Available", "Failed"})
          => IF i = Len(calls)
             THEN pc = "sleep" /\ wait_result = "unset"
             ELSE IsSleep(calls[i + 1])

\* another status first, then 'Available': the wait returned True
C9_Witness ==
    /\ wait_result = "True"
    /\ Len(Polls) = 2
    /\ Polls[1].ans = "Versioning"

\* C10: create_bot_version returns None whenever the wait did not succeed
\* (status 'Failed', a polling error, or the timeout).
C10_FailureReported ==
    (cbv_return # "unset" /\ wait_result = "False") => cbv_return = None


\* the list_bot_aliases call of the run has been answered
AliasListed == \E i \in 1..Len(calls) : calls[i].op = "list_bot_aliases"

\* the listing failed, or none of the listed aliases has the name
AliasMissing ==
    \/ \E i \in 1..Len(calls) :
          calls[i].op = "list_bot_aliases" /\ calls[i].ans \in Errors
    \/ \A k \in 1..Len(alias_listing) :
          alias_listing[k].botAliasName # ALIAS_NAME

\* C11: when no listed alias has the name, or the listing fails,
\* update_bot_alias returns False and issues no update_bot_alias request.
C11_MissingAliasFails ==
    (AliasListed /\ AliasMissing)
    => /\ success = "False"
       /\ pc = "done"
       /\ \A i \in 1..Len(calls) : calls[i].op # "update_bot_alias"

\* aliases were listed, none of them named DEMO
C11_Witness ==
    /\ AliasListed
    /\ Len(alias_listing) = 1
    /\ alias_listing[1].botAliasName = "PROD"
    /\ success = "False"


\* C12: when update_bot_alias reports success, the update request carried
\* the botVersion create_bot_version returned and the botVersion the service
\* answered with (the version it bound) is that same version.
C12_SuccessMeansBound ==
    success = "True"
    => \E i \in 1..Len(calls) :
          /\ calls[i].op = "update_bot_alias"
          /\ calls[i].arg.botVersion = new_version
          /\ calls[i].ans = new_version

\* the ways the wait can fail
FailureReasons == {"Failed", "Timeout", "Error"}

\* C14: the value the wait returns on a failure tells the caller which
\* failure it was: no other failure would have returned the same value.
C14_FailuresTyped ==
    wait_result = "False"
    => \A why \in FailureReasons \ {wait_reason} :
          WaitReturnValue(why) # wait_result

\* the indices of the calls of one operation
CallsOf(op) == {i \in 1..Len(calls) : calls[i].op = op}

\* C15: a run issues at most one create_bot_version request and at most one
\* update_bot_alias request, whatever the endpoint answers; only
\* describe_bot_version is repeated.
C15_NoRetryOfMutations ==
    /\ Cardinality(CallsOf("create_bot_version")) <= 1
    /\ Cardinality(CallsOf("update_bot_alias")) <= 1
    /\ Cardinality(CallsOf("describe_bot")) <= 1
    /\ Cardinality(CallsOf("list_bot_aliases")) <= 1

\* both mutating requests were made, the update failed, main ended, and the
\* poll had been repeated
C15_Witness ==
    /\ pc = "done"
    /\ Len(Polls) >= 2
    /\ \E i \in CallsOf("update_bot_alias") : calls[i].ans \in Errors
    /\ \E i \in CallsOf("create_bot_version") : calls[i].ans \in Versions

\* C16: between two consecutive describe_bot_version calls there is exactly
\* one sleep of the poll interval, after another status and after 'not
\* found' alike.
C16_OneSleepBetweenPolls ==
    \A i \in 1..Len(calls) :
        IsPoll(calls[i]) =>
            /\ i < Len(calls) => ~IsPoll(calls[i + 1])
            /\ \A j \in (i + 1)..Len(calls) :
                  (IsPoll(calls[j]) /\ \A m \in (i + 1)..(j - 1) : ~IsPoll(calls[m]))
                  => /\ j = i + 2
                     /\ IsSleep(calls[i + 1])
                     /\ calls[i + 1].arg = POLL_INTERVAL

\* three polls: 'not found', another status, then a third
C16_Witness ==
    /\ Len(Polls) = 3
    /\ Polls[1].ans = NotFound
    /\ Polls[2].ans = "Creating"

\* C19: a poll that fails with an error other than 'not found' ends the
\* wait with failure at once: no sleep and no describe_bot_version follow.
C19_OtherErrorEndsWait ==
    \A i \in 1..Len(calls) :
        (IsPoll(calls[i]) /\ calls[i].ans \in Errors)
        => /\ wait_result = "False"
           /\ wait_reason = "Error"
           /\ \A j \in (i + 1)..Len(calls) :
                 ~IsPoll(calls[j]) /\ ~IsSleep(calls[j])

\* the first poll raised with the whole budget left
C19_Witness ==
    /\ Len(Polls) = 1
    /\ Polls[1].ans = OtherClientError
    /\ elapsed = 0
    /\ max_wait_time >= 2 * POLL_INTERVAL
    /\ wait_result = "False"

\* C20: create_bot_version is requested only with a client and after
\* describe_bot succeeded, describe_bot_version only after the
\* create_bot_version request succeeded, and list_bot_aliases and
\* update_bot_alias only when create_bot_version returned a version.
C20_MainIsGated ==
    /\ \A i \in CallsOf("create_bot_version") :
          /\ client = "client"
          /\ \E j \in 1..(i - 1) :
                calls[j].op = "describe_bot" /\ calls[j].ans = "ok"
    /\ \A i \in CallsOf("describe_bot_version") :
          \E j \in 1..(i - 1) :
             calls[j].op = "create_bot_version" /\ calls[j].ans \in Versions
    /\ \A i \in CallsOf("list_bot_aliases") \cup CallsOf("update_bot_alias") :
          cbv_return \in Versions
    /\ calls # <<>> => client = "client"

\* the build request failed and main stopped there
C20_Witness ==
    /\ pc = "done"
    /\ cbv_return = None
    /\ \E i \in CallsOf("create_bot_version") : calls[i].ans \in Errors


(***************************************************************************)
(* Properties of the session identifiers (under ChatSpec, ConvSpec)        *)
(***************************************************************************)

\* C17: two conversations that have started hold different session ids,
\* also when both started within the same clock second.
C17_SessionIdsDistinct ==
    \A c1, c2 \in Chats :
        (c1 # c2 /\ SESSION_ID[c1] # "" /\ SESSION_ID[c2] # "")
        => SESSION_ID[c1] # SESSION_ID[c2]

\* C18: every recognize_text request of a conversation carries the session
\* id allocated when the conversation started, and that id never changes.
C18_SessionIdStable ==
    /\ [](turn >= 1 => last_request.sessionId = session_id)
    /\ [](\A c \in Chats :
            chat_sent[c] >= 1 => chat_req_session[c] = SESSION_ID[c])
    /\ [][ /\ session_id # "" => session_id' = session_id
           /\ turn >= 1 => last_request'.sessionId = last_request.sessionId
           /\ \A c \in Chats :
                 /\ SESSION_ID[c] # "" => SESSION_ID'[c] = SESSION_ID[c]
                 /\ chat_sent[c] >= 1
                       => chat_req_session'[c] = chat_req_session[c] ]_vars

\* a chat's second request went out in a later second than its start
C18_Witness ==
    \E c \in Chats :
        /\ chat_sent[c] = 2
        /\ chat_req_session[c] = SESSION_ID[c]
        /\ SessionIdAt(now) # SESSION_ID[c]


(***************************************************************************)
(* Properties of the configuration check of main                           *)
(***************************************************************************)

\* the value BOT_ID holds in the file as shipped
ShippedBotId == "YOUR_BOT_ID"

\* C21: while BOT_ID holds the placeholder shipped in the file, main stops
\* at the configuration check: it creates no client and issues no remote
\* call.
C21_PlaceholderStopsMain ==
    BOT_ID = ShippedBotId
        => /\ pc \in {"main", "done"}
           /\ client = "unset"
           /\ calls = <<>>


(***************************************************************************)
(* Properties of the order status handler (under LambdaSpec)               *)
(***************************************************************************)

\* the table.get_item call raised, or it answered with an item whose
\* Status attribute cannot be read
LookupOrReadRaised ==
    \/ get_item_answer \in GetItemErrors
    \/ /\ get_item_answer = "ok"
       /\ table[order_id].present
       /\ ~table[order_id].has_status

\* C22: an event that carries an OrderId slot value never makes the handler
\* raise, and what the handler returns is a "Close" response of intent
\* CheckOrderStatus with exactly one message; its state is "Fulfilled"
\* exactly when neither the lookup nor the reading of the item raised
\* (with the "couldn't find order" message when the table holds no such
\* order) and "Failed" exactly when one of them raised.
C22_CloseResponseForEveryOrder ==
    /\ event.slot = "filled" => lpc # "raised"
    /\ lpc = "done" =>
         /\ handler_return.sessionState.dialogAction.type = "Close"
         /\ handler_return.sessionState.intent.name = "CheckOrderStatus"
         /\ Len(handler_return.messages) = 1
         /\ handler_return.sessionState.intent.state = "Fulfilled"
               <=> ~LookupOrReadRaised
         /\ handler_return.sessionState.intent.state = "Failed"
               <=> LookupOrReadRaised
         /\ (get_item_answer = "ok" /\ ~table[order_id].present)
               => handler_return.messages[1].content
                      = "Sorry, I couldn't find order " \o event.interpretedValue

\* the handler answered for an order the table does not hold
C22_Witness ==
    /\ lpc = "done"
    /\ event.slot = "filled"
    /\ get_item_answer = "ok"
    /\ ~table[order_id].present
    /\ handler_return.sessionState.intent.state = "Fulfilled"

\* C23: no event makes lambda_handler raise: whatever the OrderId slot of
\* the event looks like, the handler ends by returning a "Close" response
\* whose state is "Fulfilled" or "Failed".
C23_NeverRaises ==
    /\ lpc # "raised"
    /\ handler_raised = "none"
    /\ lpc = "done" =>
         /\ handler_return.sessionState.dialogAction.type = "Close"
         /\ handler_return.sessionState.intent.state \in {"Fulfilled", "Failed"}
         /\ Len(handler_return.messages) = 1

====
